---- MODULE Spec2Model ----
(***************************************************************************)
(* Payment monitoring of the payment terminal server (src/src/server.ts):  *)
(* the /initiate-payment handler, monitorTransaction with its timeout      *)
(* timer and its feed callback, broadcast, and shutdown.                   *)
(*                                                                         *)
(* One handler invocation is a "call", numbered 1..MaxCalls in order of    *)
(* arrival.  Node runs each callback to completion, so one action is one   *)
(* macrotask: the synchronous part of the handler, the continuation after  *)
(* an await, a timer callback, a feed callback, the signal handler.        *)
(***************************************************************************)
EXTENDS Integers, Sequences, FiniteSets

\* Bounds of the model.
MaxCalls == 2
MaxFeed == 2
MaxSinks == 3
MaxBroadcasts == 2
MaxCycles == 2
MaxNow == 120000
MaxReads == 1

Calls == 1..MaxCalls

(***************************************************************************)
(* Values of req.body.amount.  JSON gives numbers (1e999 parses to         *)
(* Infinity, -1e999 to -Infinity) and non-numbers (strings, null, absent); *)
(* NaN is kept as an input because the handler tests for it.               *)
(***************************************************************************)
Num(n) == [t |-> "num", v |-> n]
NaN == [t |-> "nan", v |-> 0]
PosInf == [t |-> "inf", v |-> 1]
NegInf == [t |-> "inf", v |-> -1]
NotANumber == [t |-> "str", v |-> 0]
Unset == [t |-> "unset", v |-> 0]

AmountInputs == {Num(0), Num(1), Num(2), NaN, PosInf, NegInf, NotANumber}

\* Addresses a request can carry; the last one is not an Ethereum address.
EthereumAddresses == {"addr1", "addr2"}
AddressInputs == EthereumAddresses \cup {"bad"}

\* tx.value of the events the feed delivers.
FeedValues == {1, 2}

\* Results of nfcApp.processPayment: success, a reported failure with its
\* errorType, or a thrown error.
ErrorTypes == {"PHONE_MOVED_TOO_QUICKLY", "NFC_ERROR"}
PaymentResults ==
    {[kind |-> "success", errorType |-> ""], [kind |-> "throw", errorType |-> ""]}
    \cup {[kind |-> "failure", errorType |-> e] : e \in ErrorTypes}
NoResult == [kind |-> "none", errorType |-> ""]

VARIABLES
    phase,           \* "running", or "shutdown" once a signal was handled
    calls,           \* number of handler invocations so far
    amount,          \* call -> req.body.amount
    merchantAddress, \* call -> req.body.merchantAddress
    pc,              \* call -> "idle", "awaitMonitor", "awaitInitiator", "done"
    timeout,         \* call -> state of the call's setTimeout handle
    watching,        \* call -> its feed subscription is live
    paymentResult,   \* call -> what processPayment returned
    response,        \* call -> HTTP status sent (0: none yet)
    sent,            \* call -> messages handed to broadcast on its behalf
    activePayments,  \* address -> PaymentSession
    feeds,           \* number of feed events delivered
    lastFeed         \* the last feed event: the call whose callback ran, tx.value

\* The state of the payment path.
payVars == <<phase, calls, amount, merchantAddress, pc, timeout, watching,
             paymentResult, response, sent, activePayments, feeds, lastFeed>>

VARIABLES
    clients,         \* the Set of connected sockets, in insertion order
    readyState,      \* socket -> "NONE" (not connected yet), "OPEN", "CLOSING", "CLOSED"
    faulty,          \* socket -> its send throws
    inbox,           \* socket -> the data it was sent
    broadcasts,      \* number of broadcast calls so far
    last             \* the last broadcast call: message, sockets whose send threw,
                     \* whether an error reached the caller

\* The state of the WebSocket clients.
hubVars == <<clients, readyState, faulty, inbox, broadcasts, last>>

VARIABLES
    now,             \* Date.now()
    cachedPrices,    \* coin id -> {price, timestamp}
    refreshInterval, \* "null", or "armed" while the setInterval handle is live
    initState,       \* initialize(): "new", "awaiting" (its first refresh), "returned"
    cycleCount,      \* number of fetchAndCacheAllPrices runs started
    position,        \* run -> index of the coin it fetches next (0: not started)
    fetched,         \* run -> coin id -> how its fetch ended in that run
    lastOk,          \* coin id -> price and time of its last successful fetch
    stopped,         \* stop() has returned since initialize() was called
    nextTick,        \* the time the interval callback is due, 0 when not armed
    reads,           \* the number of getCachedPrice calls so far
    read             \* the last getCachedPrice call: asset, result and time

\* The state of PriceCacheService.
priceVars == <<now, cachedPrices, refreshInterval, initState, cycleCount,
               position, fetched, lastOk, stopped, nextTick, reads, read>>

vars == <<payVars, hubVars, priceVars>>

\* No feed event yet.
NoFeed == [call |-> 0, value |-> 0]

(***************************************************************************)
(* Messages and broadcast                                                  *)
(***************************************************************************)
Msg(type, message, errorType, isError) ==
    [type |-> type, message |-> message, errorType |-> errorType, isError |-> isError]

InvalidAmountStatus == Msg("status", "Invalid amount received from UI.", "", TRUE)
InvalidAddressStatus == Msg("status", "Invalid merchant address.", "", TRUE)
PreparingStatus == Msg("status", "Preparing for payment...", "", FALSE)
TransactionConfirmed == Msg("transaction_confirmed", "Payment confirmed!", "", FALSE)
PaymentSuccess == Msg("payment_success", "", "", FALSE)
PaymentFailure(errorType) == Msg("payment_failure", "", errorType, FALSE)

\* broadcast(message) on behalf of call r: the message joins the stream.
Broadcast(log, r, msg) == [log EXCEPT ![r] = Append(@, msg)]

(***************************************************************************)
(* The registry and the timers                                             *)
(***************************************************************************)
NoSession == [amount |-> Unset, merchantAddress |-> "", timeout |-> 0]

\* The PaymentSession monitorTransaction stores for call r; its timeout
\* field is the handle of r's timer (startTime is written and never read).
Session(a, m, r) == [amount |-> a, merchantAddress |-> m, timeout |-> r]

\* activePayments.set(m, session)
MapSet(ap, m, session) == [ap EXCEPT ![m] = session]

\* activePayments.delete(m)
MapDelete(ap, m) == [ap EXCEPT ![m] = NoSession]

\* clearTimeout(handle): disarms an armed timer, otherwise does nothing.
ClearTimeout(t, r) ==
    IF r \in DOMAIN t /\ t[r] = "armed" THEN [t EXCEPT ![r] = "cleared"] ELSE t

(***************************************************************************)
(* Validation of the request body                                          *)
(***************************************************************************)
TypeofNumber(a) == a.t \in {"num", "nan", "inf"}
LeqZero(a) == (a.t = "num" /\ a.v <= 0) \/ (a.t = "inf" /\ a.v < 0)
IsNaN(a) == a.t = "nan"

\* typeof amount !== 'number' || amount <= 0 || isNaN(amount)
InvalidAmount(a) == ~TypeofNumber(a) \/ LeqZero(a) \/ IsNaN(a)

IsEthereumAddress(m) == m \in EthereumAddresses

\* !merchantAddress || !AlchemyService.isEthereumAddress(merchantAddress)
InvalidAddress(m) == m = "" \/ ~IsEthereumAddress(m)

\* Mutant of ValueCovers: only the exact amount confirms.
ValueCoversExactly(v, a) == a.t = "num" /\ v = a.v

\* tx.value >= amount, for an amount that passed validation
ValueCovers(v, a) == a.t = "num" /\ v >= a.v

\* Mutant of StatusCode: every reported failure answers 500.
StatusCodeAlways500(errorType) == 500

\* paymentResult.errorType === 'PHONE_MOVED_TOO_QUICKLY' ? 409 : 500
StatusCode(errorType) == IF errorType = "PHONE_MOVED_TOO_QUICKLY" THEN 409 ELSE 500

(***************************************************************************)
(* The WebSocket clients                                                   *)
(***************************************************************************)
Sinks == 1..MaxSinks

\* The messages broadcast is called with.
HubMessages == {PreparingStatus, PaymentSuccess}

\* The greeting of the connection handler.
ConnectedStatus == Msg("status", "Connected to payment terminal.", "", FALSE)

\* JSON.stringify(message): the text that goes on the wire.
Stringify(msg) == [json |-> msg]

NoBroadcast == [msg |-> ConnectedStatus, failed |-> {}, raised |-> FALSE]

\* The elements of a sequence.
Range(seq) == {seq[i] : i \in 1..Len(seq)}

\* clients.add(ws)
SetAdd(cs, s) == IF s \in Range(cs) THEN cs ELSE Append(cs, s)

\* clients.delete(ws)
SetDelete(cs, s) == SelectSeq(cs, LAMBDA x : x # s)

HubInit ==
    /\ clients = <<>>
    /\ readyState = [s \in Sinks |-> "NONE"]
    /\ faulty = [s \in Sinks |-> FALSE]
    /\ inbox = [s \in Sinks |-> <<>>]
    /\ broadcasts = 0
    /\ last = NoBroadcast

(***************************************************************************)
(* The price cache                                                         *)
(***************************************************************************)
\* [...new Set(SUPPORTED_CHAINS.map(chain => chain.coingeckoId))]
Assets == <<"polkadot", "kusama">>
AssetSet == {Assets[i] : i \in 1..Len(Assets)}

Cycles == 1..MaxCycles

REFRESH_INTERVAL_MS == 60000

\* The prices the source answers with, and the time that passes between events.
Prices == {1, 2}
TimeSteps == {30000}

NoEntry == [price |-> 0, timestamp |-> -1]
NoFetch == [kind |-> "none", price |-> 0]
NoRead == [asset |-> "", price |-> 0, at |-> 0]

PriceInit ==
    /\ now = 0
    /\ cachedPrices = [a \in AssetSet |-> NoEntry]
    /\ refreshInterval = "null"
    /\ initState = "new"
    /\ cycleCount = 0
    /\ position = [c \in Cycles |-> 0]
    /\ fetched = [c \in Cycles |-> [a \in AssetSet |-> NoFetch]]
    /\ lastOk = [a \in AssetSet |-> NoEntry]
    /\ stopped = FALSE
    /\ nextTick = 0
    /\ reads = 0
    /\ read = NoRead

(***************************************************************************)
(* Initial state: the server is up, nothing has been requested.            *)
(***************************************************************************)
Init ==
    /\ phase = "running"
    /\ calls = 0
    /\ amount = [r \in Calls |-> Unset]
    /\ merchantAddress = [r \in Calls |-> ""]
    /\ pc = [r \in Calls |-> "idle"]
    /\ timeout = [r \in Calls |-> "none"]
    /\ watching = [r \in Calls |-> FALSE]
    /\ paymentResult = [r \in Calls |-> NoResult]
    /\ response = [r \in Calls |-> 0]
    /\ sent = [r \in Calls |-> <<>>]
    /\ activePayments = [m \in EthereumAddresses |-> NoSession]
    /\ feeds = 0
    /\ lastFeed = NoFeed
    /\ HubInit
    /\ PriceInit

(***************************************************************************)
(* initiatePaymentHandler, up to its first suspension                      *)
(***************************************************************************)
\* The request is accepted as call calls + 1 with body {amount: a, merchantAddress: m}.
Accept(r, a, m) ==
    /\ phase = "running"
    /\ calls < MaxCalls
    /\ r = calls + 1
    /\ calls' = r
    /\ amount' = [amount EXCEPT ![r] = a]
    /\ merchantAddress' = [merchantAddress EXCEPT ![r] = m]
    /\ UNCHANGED <<hubVars, priceVars>>

\* Invalid amount: advisory broadcast, 400, return.
RejectAmount(r, a, m) ==
    /\ Accept(r, a, m)
    /\ InvalidAmount(a)
    /\ sent' = Broadcast(sent, r, InvalidAmountStatus)
    /\ response' = [response EXCEPT ![r] = 400]
    /\ pc' = [pc EXCEPT ![r] = "done"]
    /\ UNCHANGED <<phase, timeout, watching, paymentResult, activePayments,
                   feeds, lastFeed>>

\* Invalid address: advisory broadcast, 400, return.
RejectAddress(r, a, m) ==
    /\ Accept(r, a, m)
    /\ ~InvalidAmount(a)
    /\ InvalidAddress(m)
    /\ sent' = Broadcast(sent, r, InvalidAddressStatus)
    /\ response' = [response EXCEPT ![r] = 400]
    /\ pc' = [pc EXCEPT ![r] = "done"]
    /\ UNCHANGED <<phase, timeout, watching, paymentResult, activePayments,
                   feeds, lastFeed>>

\* Mutant of StartMonitoring: the "preparing" broadcast is left out.
StartMonitoringUnannounced(r, a, m) ==
    /\ Accept(r, a, m)
    /\ ~InvalidAmount(a)
    /\ ~InvalidAddress(m)
    /\ timeout' = [timeout EXCEPT ![r] = "armed"]
    /\ activePayments' = MapSet(activePayments, m, Session(a, m, r))
    /\ pc' = [pc EXCEPT ![r] = "awaitMonitor"]
    /\ UNCHANGED <<phase, watching, paymentResult, response, sent, feeds, lastFeed>>

\* Valid request: "preparing" broadcast, then monitorTransaction arms the
\* timer, stores the session under the address (replacing whatever is there)
\* and suspends on AlchemyService.monitorTransactions.
StartMonitoring(r, a, m) ==
    /\ Accept(r, a, m)
    /\ ~InvalidAmount(a)
    /\ ~InvalidAddress(m)
    /\ sent' = Broadcast(sent, r, PreparingStatus)
    /\ timeout' = [timeout EXCEPT ![r] = "armed"]
    /\ activePayments' = MapSet(activePayments, m, Session(a, m, r))
    /\ pc' = [pc EXCEPT ![r] = "awaitMonitor"]
    /\ UNCHANGED <<phase, watching, paymentResult, response, feeds, lastFeed>>

\* As StartMonitoring, but AlchemyService.monitorTransactions throws before
\* it returns a promise: both catch blocks run in the same turn.
StartMonitoringThrows(r, a, m) ==
    /\ Accept(r, a, m)
    /\ ~InvalidAmount(a)
    /\ ~InvalidAddress(m)
    /\ timeout' = ClearTimeout([timeout EXCEPT ![r] = "armed"], r)
    /\ activePayments' = MapDelete(MapSet(activePayments, m, Session(a, m, r)), m)
    /\ sent' = Broadcast(Broadcast(Broadcast(sent, r, PreparingStatus),
                                   r, PaymentFailure("MONITORING_ERROR")),
                         r, PaymentFailure("SERVER_ERROR"))
    /\ response' = [response EXCEPT ![r] = 500]
    /\ pc' = [pc EXCEPT ![r] = "done"]
    /\ UNCHANGED <<phase, watching, paymentResult, feeds, lastFeed>>

(***************************************************************************)
(* Continuations of the handler                                            *)
(***************************************************************************)
\* AlchemyService.monitorTransactions resolves: the subscription is live,
\* monitorTransaction returns (the unsubscribe function is dropped by the
\* handler) and the handler calls nfcApp.processPayment and suspends.
MonitorResolves(r) ==
    /\ pc[r] = "awaitMonitor"
    /\ watching' = [watching EXCEPT ![r] = TRUE]
    /\ pc' = [pc EXCEPT ![r] = "awaitInitiator"]
    /\ UNCHANGED <<hubVars, priceVars, phase, calls, amount, merchantAddress, timeout, paymentResult,
                   response, sent, activePayments, feeds, lastFeed>>

\* Mutant of MonitorFails: the catch block does not clear the timer.
MonitorFailsKeepsTimer(r) ==
    /\ pc[r] = "awaitMonitor"
    /\ activePayments' = MapDelete(activePayments, merchantAddress[r])
    /\ sent' = Broadcast(Broadcast(sent, r, PaymentFailure("MONITORING_ERROR")),
                         r, PaymentFailure("SERVER_ERROR"))
    /\ response' = [response EXCEPT ![r] = 500]
    /\ pc' = [pc EXCEPT ![r] = "done"]
    /\ UNCHANGED <<hubVars, priceVars, phase, calls, amount, merchantAddress, timeout, watching,
                   paymentResult, feeds, lastFeed>>

\* AlchemyService.monitorTransactions rejects: the catch block of
\* monitorTransaction, then the catch block of the handler.
MonitorFails(r) ==
    /\ pc[r] = "awaitMonitor"
    /\ timeout' = ClearTimeout(timeout, r)
    /\ activePayments' = MapDelete(activePayments, merchantAddress[r])
    /\ sent' = Broadcast(Broadcast(sent, r, PaymentFailure("MONITORING_ERROR")),
                         r, PaymentFailure("SERVER_ERROR"))
    /\ response' = [response EXCEPT ![r] = 500]
    /\ pc' = [pc EXCEPT ![r] = "done"]
    /\ UNCHANGED <<hubVars, priceVars, phase, calls, amount, merchantAddress, watching, paymentResult,
                   feeds, lastFeed>>

\* What the handler broadcasts for the initiator's result.
OutcomeMessage(res) ==
    CASE res.kind = "success" -> PaymentSuccess
      [] res.kind = "failure" -> PaymentFailure(res.errorType)
      [] OTHER -> PaymentFailure("SERVER_ERROR")

\* The HTTP status the handler sends for the initiator's result.
OutcomeStatus(res) ==
    CASE res.kind = "success" -> 200
      [] res.kind = "failure" -> StatusCode(res.errorType)
      [] OTHER -> 500

\* nfcApp.processPayment settles with res: broadcast and respond.
InitiatorSettles(r, res) ==
    /\ pc[r] = "awaitInitiator"
    /\ paymentResult' = [paymentResult EXCEPT ![r] = res]
    /\ sent' = Broadcast(sent, r, OutcomeMessage(res))
    /\ response' = [response EXCEPT ![r] = OutcomeStatus(res)]
    /\ pc' = [pc EXCEPT ![r] = "done"]
    /\ UNCHANGED <<hubVars, priceVars, phase, calls, amount, merchantAddress, timeout, watching,
                   activePayments, feeds, lastFeed>>

(***************************************************************************)
(* Callbacks of monitorTransaction                                         *)
(***************************************************************************)
\* Mutant of TimeoutExpires: the callback does not delete the session.
TimeoutExpiresKeepsEntry(r) ==
    /\ timeout[r] = "armed"
    /\ timeout' = [timeout EXCEPT ![r] = "fired"]
    /\ sent' = Broadcast(sent, r, PaymentFailure("PAYMENT_TIMEOUT"))
    /\ UNCHANGED <<hubVars, priceVars, phase, calls, amount, merchantAddress, pc, watching,
                   paymentResult, response, activePayments, feeds, lastFeed>>

\* The setTimeout callback of call r runs.
TimeoutExpires(r) ==
    /\ timeout[r] = "armed"
    /\ timeout' = [timeout EXCEPT ![r] = "fired"]
    /\ sent' = Broadcast(sent, r, PaymentFailure("PAYMENT_TIMEOUT"))
    /\ activePayments' = MapDelete(activePayments, merchantAddress[r])
    /\ UNCHANGED <<hubVars, priceVars, phase, calls, amount, merchantAddress, pc, watching,
                   paymentResult, response, feeds, lastFeed>>

\* The feed hands a transaction of value v to the callback of call r.
FeedEvent(r, v) ==
    /\ watching[r]
    /\ feeds < MaxFeed
    /\ feeds' = feeds + 1
    /\ lastFeed' = [call |-> r, value |-> v]
    /\ IF ValueCovers(v, amount[r])
       THEN /\ timeout' = ClearTimeout(timeout, r)
            /\ activePayments' = MapDelete(activePayments, merchantAddress[r])
            /\ sent' = Broadcast(sent, r, TransactionConfirmed)
       ELSE UNCHANGED <<timeout, activePayments, sent>>
    /\ UNCHANGED <<hubVars, priceVars, phase, calls, amount, merchantAddress, pc, watching,
                   paymentResult, response>>

(***************************************************************************)
(* Shutdown                                                                *)
(***************************************************************************)
\* The timers shutdown clears: those of the sessions in the registry.
RegisteredTimers(ap) == {ap[m].timeout : m \in DOMAIN ap} \ {0}

\* clearTimeout on every handle of hs.
ClearAll(t, hs) ==
    [r \in DOMAIN t |-> IF r \in hs /\ t[r] = "armed" THEN "cleared" ELSE t[r]]

\* Mutant of Shutdown: the timers are cleared but the registry is not emptied.
ShutdownKeepsRegistry ==
    /\ phase = "running"
    /\ phase' = "shutdown"
    /\ timeout' = ClearAll(timeout, RegisteredTimers(activePayments))
    /\ UNCHANGED <<hubVars, priceVars, calls, amount, merchantAddress, pc, watching, paymentResult,
                   response, sent, activePayments, feeds, lastFeed>>

\* SIGINT or SIGTERM: clear the timers of the registered sessions, empty the
\* registry, close the sockets and stop listening.  Handlers in flight, armed
\* timers and subscriptions keep running until process.exit (when the last
\* connection ends, at most 10 s later); after it the state no longer changes.
Shutdown ==
    /\ phase = "running"
    /\ phase' = "shutdown"
    /\ timeout' = ClearAll(timeout, RegisteredTimers(activePayments))
    /\ activePayments' = [m \in DOMAIN activePayments |-> NoSession]
    /\ UNCHANGED <<hubVars, priceVars, calls, amount, merchantAddress, pc, watching, paymentResult,
                   response, sent, feeds, lastFeed>>

Next ==
    \/ \E r \in Calls, a \in AmountInputs, m \in AddressInputs : RejectAmount(r, a, m)
    \/ \E r \in Calls, a \in AmountInputs, m \in AddressInputs : RejectAddress(r, a, m)
    \/ \E r \in Calls, a \in AmountInputs, m \in AddressInputs : StartMonitoring(r, a, m)
    \/ \E r \in Calls, a \in AmountInputs, m \in AddressInputs :
           StartMonitoringThrows(r, a, m)
    \/ \E r \in Calls : MonitorResolves(r)
    \/ \E r \in Calls : MonitorFails(r)
    \/ \E r \in Calls, res \in PaymentResults : InitiatorSettles(r, res)
    \/ \E r \in Calls : TimeoutExpires(r)
    \/ \E r \in Calls, v \in FeedValues : FeedEvent(r, v)
    \/ Shutdown

Spec == Init /\ [][Next]_vars

\* Node runs the callback of every timer that stays armed.
FairSpec == Spec /\ \A r \in Calls : WF_vars(TimeoutExpires(r))

(***************************************************************************)
(* Vocabulary of the properties                                            *)
(***************************************************************************)
\* Positions of the stream of call r that hold a message of one of the types.
Positions(r, types) == {i \in 1..Len(sent[r]) : sent[r][i].type \in types}

\* Positions of the stream of call r that hold exactly msg.
PositionsOf(r, msg) == {i \in 1..Len(sent[r]) : sent[r][i] = msg}

\* Call r passed validation: monitorTransaction armed a timer for it.
Validated(r) == timeout[r] # "none"

\* The registry holds the session of call r.
Registered(r) ==
    /\ merchantAddress[r] \in DOMAIN activePayments
    /\ activePayments[merchantAddress[r]].timeout = r

\* The calls whose timer is armed for address m.
LiveTimers(m) == {r \in Calls : timeout[r] = "armed" /\ merchantAddress[r] = m}

(***************************************************************************)
(* C1: at most one pending session per recipient address, and never two    *)
(* live (armed) timeout timers for the same address.  The registry is a    *)
(* map, so it holds one session per address; the timers are what a second  *)
(* call for the same address doubles.                                      *)
(***************************************************************************)
C1_OneLiveTimerPerAddress ==
    \A m \in EthereumAddresses : Cardinality(LiveTimers(m)) <= 1

(***************************************************************************)
(* C2: of the three triggers of one attempt only the first takes effect:   *)
(* observers get at most one outcome broadcast (payment_success or         *)
(* payment_failure) for it, and a payment_success is never followed by a   *)
(* payment_failure PAYMENT_TIMEOUT.  Stated for the attempts whose watcher *)
(* was set up, the ones that have all three triggers.                      *)
(***************************************************************************)
C2_SingleOutcome ==
    \A r \in Calls :
        watching[r] =>
            /\ Cardinality(Positions(r, {"payment_success", "payment_failure"})) <= 1
            /\ \A i \in PositionsOf(r, PaymentSuccess) :
                   \A j \in PositionsOf(r, PaymentFailure("PAYMENT_TIMEOUT")) : j < i

(***************************************************************************)
(* C3: once the HTTP response of a call that passed validation is sent,    *)
(* its timer is no longer armed, its subscription is cancelled and its     *)
(* registry entry is gone.                                                 *)
(***************************************************************************)
C3_CleanupOnEveryExit ==
    \A r \in Calls :
        (Validated(r) /\ response[r] # 0) =>
            /\ timeout[r] # "armed"
            /\ ~watching[r]
            /\ ~Registered(r)

(***************************************************************************)
(* C4: a session reaches a terminal state once, and every later trigger is *)
(* a no-op: of the feed matches and the timer expiry of one session at     *)
(* most one ever takes effect (one transaction_confirmed or one            *)
(* PAYMENT_TIMEOUT broadcast, never two of them).                          *)
(***************************************************************************)
C4_LaterTriggersAreNoOps ==
    \A r \in Calls :
        Cardinality(PositionsOf(r, TransactionConfirmed)
                    \cup PositionsOf(r, PaymentFailure("PAYMENT_TIMEOUT"))) <= 1

\* The amounts the claim C5 calls invalid: not a number, NaN, infinite, or <= 0.
NotFinitePositive(a) == a.t # "num" \/ a.v <= 0

(***************************************************************************)
(* C5: for every amount that is <= 0, non-finite or not a number the call  *)
(* answers 400, creates no session, timer or watcher, does not invoke the  *)
(* initiator and issues exactly one advisory status broadcast.             *)
(***************************************************************************)
C5_InvalidAmountRejected ==
    \A r \in Calls :
        (r <= calls /\ NotFinitePositive(amount[r])) =>
            /\ response[r] = 400
            /\ pc[r] = "done"
            /\ timeout[r] = "none"
            /\ ~watching[r]
            /\ ~Registered(r)
            /\ paymentResult[r] = NoResult
            /\ Len(sent[r]) = 1
            /\ sent[r][1].type = "status"
            /\ sent[r][1].isError

(***************************************************************************)
(* C6: if the first thing that happens to a valid call after its           *)
(* "preparing" broadcast is a feed event that covers the amount (so before *)
(* the timeout and before the initiator settles), then once the response   *)
(* is sent it is 200 and payment_success was broadcast after               *)
(* transaction_confirmed, whatever the initiator returned.                 *)
(***************************************************************************)
C6_ConfirmedGivesSuccess ==
    \A r \in Calls :
        (/\ pc[r] = "done"
         /\ Len(sent[r]) >= 2
         /\ sent[r][2] = TransactionConfirmed) =>
            /\ response[r] = 200
            /\ \E i \in PositionsOf(r, PaymentSuccess) : i > 2
            /\ Positions(r, {"payment_failure"}) = {}

\* A feed event that covers the amount of call r reached its callback.
Matched(r) == PositionsOf(r, TransactionConfirmed) # {}

\* The timer of call r ran: it fired, PAYMENT_TIMEOUT was broadcast and the
\* session of r is not in the registry.
TimedOut(r) ==
    /\ timeout[r] = "fired"
    /\ PositionsOf(r, PaymentFailure("PAYMENT_TIMEOUT")) # {}
    /\ ~Registered(r)

(***************************************************************************)
(* C7: if a valid session is registered with its watcher set up, and no    *)
(* feed event covering its amount arrives (and the process is not shut     *)
(* down first), then its timer eventually fires: the session is removed    *)
(* from the registry and payment_failure PAYMENT_TIMEOUT is broadcast.     *)
(***************************************************************************)
C7_TimeoutEventuallyFires ==
    \A r \in Calls :
        (watching[r] /\ timeout[r] = "armed")
            ~> (TimedOut(r) \/ Matched(r) \/ phase = "shutdown")

C7_Witness ==
    \E r \in Calls :
        /\ watching[r]
        /\ TimedOut(r)
        /\ ~Matched(r)
        /\ phase = "running"
        /\ sent[r] = <<PreparingStatus, PaymentFailure("PAYMENT_TIMEOUT")>>

(***************************************************************************)
(* C8: the HTTP status is a function of the initiator's result: 200 with   *)
(* payment_success when it reports success; 409 when it reports failure    *)
(* PHONE_MOVED_TOO_QUICKLY and 500 for every other errorType, with a       *)
(* payment_failure broadcast carrying that errorType; 500 with             *)
(* payment_failure SERVER_ERROR when it throws.                            *)
(***************************************************************************)
C8_StatusFollowsInitiator ==
    \A r \in Calls :
        LET res == paymentResult[r] IN
        /\ res.kind = "success" =>
               response[r] = 200 /\ PositionsOf(r, PaymentSuccess) # {}
        /\ res.kind = "failure" =>
               /\ (response[r] = 409) <=> (res.errorType = "PHONE_MOVED_TOO_QUICKLY")
               /\ response[r] \in {409, 500}
               /\ PositionsOf(r, PaymentFailure(res.errorType)) # {}
        /\ res.kind = "throw" =>
               response[r] = 500 /\ PositionsOf(r, PaymentFailure("SERVER_ERROR")) # {}

C8_Witness ==
    \E r, q \in Calls :
        /\ paymentResult[r] = [kind |-> "failure", errorType |-> "PHONE_MOVED_TOO_QUICKLY"]
        /\ response[r] = 409
        /\ paymentResult[q] = [kind |-> "failure", errorType |-> "NFC_ERROR"]
        /\ response[q] = 500

\* The watcher setup of call r failed: the call passed validation and ended
\* without a subscription.
SetupFailed(r) == Validated(r) /\ pc[r] = "done" /\ ~watching[r]

(***************************************************************************)
(* C9: when the watcher setup of a valid call fails, its timer is          *)
(* cancelled and its registry entry removed, the initiator is never        *)
(* invoked, a payment_failure is broadcast and the HTTP response is 500.   *)
(***************************************************************************)
C9_SetupFailureCleansUp ==
    \A r \in Calls :
        SetupFailed(r) =>
            /\ timeout[r] # "armed"
            /\ ~Registered(r)
            /\ paymentResult[r] = NoResult
            /\ Positions(r, {"payment_failure"}) # {}
            /\ response[r] = 500

C9_Witness ==
    \E r \in Calls :
        /\ SetupFailed(r)
        /\ timeout[r] = "cleared"
        /\ sent[r] = <<PreparingStatus, PaymentFailure("MONITORING_ERROR"),
                       PaymentFailure("SERVER_ERROR")>>
        /\ \E q \in Calls : q < r /\ merchantAddress[q] = merchantAddress[r]
                            /\ pc[q] = "awaitInitiator"

(***************************************************************************)
(* C10: after shutdown has run, no timeout timer scheduled by an earlier   *)
(* call fires (and broadcasts) any more.                                   *)
(***************************************************************************)
C10_NoTimeoutAfterShutdown ==
    [][phase = "shutdown" =>
          \A r \in Calls : timeout'[r] = "fired" => timeout[r] = "fired"]_vars

(***************************************************************************)
(* C11: shutdown cancels the watcher subscription of every pending         *)
(* session: after shutdown has run, no feed event invokes a session        *)
(* callback any more (so none mutates the registry or broadcasts           *)
(* transaction_confirmed).                                                 *)
(***************************************************************************)
C11_NoFeedCallbackAfterShutdown ==
    [][phase = "shutdown" => (feeds' = feeds /\ lastFeed' = lastFeed)]_vars

\* The broadcasts that report an outcome of a session.
OutcomeTypes == {"transaction_confirmed", "payment_success", "payment_failure"}

(***************************************************************************)
(* C18: the messages of one session keep their causal order: its           *)
(* "preparing" status broadcast precedes every outcome broadcast           *)
(* (transaction_confirmed, payment_success, payment_failure) of the same   *)
(* session.                                                                *)
(***************************************************************************)
C18_PreparingPrecedesOutcomes ==
    \A r \in Calls :
        \A i \in Positions(r, OutcomeTypes) :
            \E j \in PositionsOf(r, PreparingStatus) : j < i

C18_Witness ==
    \E r \in Calls :
        /\ Len(sent[r]) = 4
        /\ sent[r][1] = PreparingStatus
        /\ PositionsOf(r, PaymentFailure("PAYMENT_TIMEOUT")) # {}
        /\ PositionsOf(r, TransactionConfirmed) # {}
        /\ PositionsOf(r, PaymentSuccess) # {}

(***************************************************************************)
(* C19: a trigger callback acts only on its own session: the registry      *)
(* entry of a session is removed only by that session's own timer or feed  *)
(* callback (or by its own setup failure, by a later call for the address  *)
(* or by shutdown), never by the timer expiry or watcher match of another  *)
(* session; and transaction_confirmed is broadcast for a session only when *)
(* the feed event's value is >= that session's own amount.                 *)
(***************************************************************************)
C19_TriggersActOnOwnSession ==
    [][\A r \in Calls :
           /\ \A q \in Calls \ {r} :
                  (/\ Registered(r)
                   /\ \/ timeout[q] = "armed" /\ timeout'[q] = "fired"
                      \/ feeds' # feeds /\ lastFeed'.call = q) =>
                      activePayments'[merchantAddress[r]].timeout = r
           /\ (sent'[r] # sent[r] /\ feeds' # feeds) =>
                  (amount[r].t = "num" /\ lastFeed'.value >= amount[r].v)
      ]_vars

(***************************************************************************)
(* C20: the watcher confirms on a threshold: a feed event with value >=    *)
(* the expected amount (overpayment included) confirms the session (timer  *)
(* no longer armed, entry removed, transaction_confirmed broadcast); an    *)
(* event with value < the amount leaves the entries, the timers and the    *)
(* broadcast stream unchanged.                                             *)
(***************************************************************************)
C20_ThresholdConfirms ==
    [][feeds' # feeds =>
          LET r == lastFeed'.call
              v == lastFeed'.value
          IN  IF amount[r].t = "num" /\ v >= amount[r].v
              THEN /\ timeout'[r] # "armed"
                   /\ activePayments'[merchantAddress[r]] = NoSession
                   /\ sent'[r] = Append(sent[r], TransactionConfirmed)
              ELSE UNCHANGED <<activePayments, timeout, sent>>
      ]_vars

C20_Witness ==
    \E r, q \in Calls :
        /\ lastFeed = [call |-> r, value |-> 2]
        /\ amount[r] = Num(1)
        /\ timeout[r] = "cleared"
        /\ sent[r] = <<PreparingStatus, TransactionConfirmed>>
        /\ q # r
        /\ amount[q] = Num(2)
        /\ watching[q]
        /\ feeds = MaxFeed
        /\ sent[q] = <<PreparingStatus>>
        /\ timeout[q] = "armed"

(***************************************************************************)
(* The WebSocket hub: connection handler, socket events and broadcast      *)
(***************************************************************************)
\* wss.on('connection'): register the socket and greet it.  The sockets are
\* numbered in order of arrival.
Connect(s) ==
    /\ readyState[s] = "NONE"
    /\ \A t \in Sinks : t < s => readyState[t] # "NONE"
    /\ clients' = SetAdd(clients, s)
    /\ readyState' = [readyState EXCEPT ![s] = "OPEN"]
    /\ inbox' = [inbox EXCEPT ![s] = Append(@, Stringify(ConnectedStatus))]
    /\ UNCHANGED <<payVars, priceVars, faulty, broadcasts, last>>

\* From now on send() on the open socket s throws.
SendFault(s) ==
    /\ readyState[s] = "OPEN"
    /\ ~faulty[s]
    /\ faulty' = [faulty EXCEPT ![s] = TRUE]
    /\ UNCHANGED <<payVars, priceVars, clients, readyState, inbox, broadcasts, last>>

\* The closing handshake of s starts (the peer closes, or client.terminate()
\* in shutdown); the 'close' event has not been emitted yet.
StartClosing(s) ==
    /\ readyState[s] = "OPEN"
    /\ readyState' = [readyState EXCEPT ![s] = "CLOSING"]
    /\ UNCHANGED <<payVars, priceVars, clients, faulty, inbox, broadcasts, last>>

\* ws.on('close')
CloseEvent(s) ==
    /\ readyState[s] \in {"OPEN", "CLOSING"}
    /\ readyState' = [readyState EXCEPT ![s] = "CLOSED"]
    /\ clients' = SetDelete(clients, s)
    /\ UNCHANGED <<payVars, priceVars, faulty, inbox, broadcasts, last>>

\* ws.on('error'): the socket is unregistered and starts closing.
ErrorEvent(s) ==
    /\ readyState[s] = "OPEN"
    /\ readyState' = [readyState EXCEPT ![s] = "CLOSING"]
    /\ clients' = SetDelete(clients, s)
    /\ UNCHANGED <<payVars, priceVars, faulty, inbox, broadcasts, last>>

\* Mutant of SendAll: no try/catch, a throwing send ends the forEach.
RECURSIVE SendAllNoCatch(_, _, _)
SendAllNoCatch(cs, boxes, data) ==
    IF cs = <<>>
    THEN [inbox |-> boxes, failed |-> {}, raised |-> FALSE]
    ELSE LET client == Head(cs)
         IN  IF readyState[client] = "OPEN"
             THEN IF faulty[client]
                  THEN [inbox |-> boxes, failed |-> {client}, raised |-> TRUE]
                  ELSE SendAllNoCatch(Tail(cs),
                                      [boxes EXCEPT ![client] = Append(@, data)], data)
             ELSE SendAllNoCatch(Tail(cs), boxes, data)

\* clients.forEach of broadcast over the sockets cs in insertion order: what
\* the sockets have received, the sockets whose send threw, and whether an
\* exception left the loop.
RECURSIVE SendAll(_, _, _)
SendAll(cs, boxes, data) ==
    IF cs = <<>>
    THEN [inbox |-> boxes, failed |-> {}, raised |-> FALSE]
    ELSE LET client == Head(cs)
         IN  IF readyState[client] = "OPEN"
             THEN IF faulty[client]
                  THEN LET rest == SendAll(Tail(cs), boxes, data)
                       IN  [rest EXCEPT !.failed = @ \cup {client}]
                  ELSE SendAll(Tail(cs), [boxes EXCEPT ![client] = Append(@, data)], data)
             ELSE SendAll(Tail(cs), boxes, data)

\* broadcast(msg)
BroadcastCall(msg) ==
    /\ broadcasts < MaxBroadcasts
    /\ broadcasts' = broadcasts + 1
    /\ LET result == SendAll(clients, inbox, Stringify(msg))
       IN  /\ inbox' = result.inbox
           /\ last' = [msg |-> msg, failed |-> result.failed, raised |-> result.raised]
    /\ UNCHANGED <<payVars, priceVars, clients, readyState, faulty>>

HubNext ==
    \/ \E s \in Sinks : Connect(s)
    \/ \E s \in Sinks : SendFault(s)
    \/ \E s \in Sinks : StartClosing(s)
    \/ \E s \in Sinks : CloseEvent(s)
    \/ \E s \in Sinks : ErrorEvent(s)
    \/ \E msg \in HubMessages : BroadcastCall(msg)

HubSpec == Init /\ [][HubNext]_vars

\* The index of socket s in the registered set.
IndexOf(cs, s) == CHOOSE i \in 1..Len(cs) : cs[i] = s

(***************************************************************************)
(* C12: a broadcast to the registered sinks, of which some are closed or   *)
(* throw on send, delivers the message exactly once to every remaining     *)
(* open sink, delivers nothing to the others, and raises no error to the   *)
(* caller.                                                                 *)
(***************************************************************************)
C12_BroadcastIsolatesFailures ==
    [][broadcasts' # broadcasts =>
          /\ ~last'.raised
          /\ \A s \in Sinks :
                 inbox'[s] = IF /\ s \in Range(clients)
                                /\ readyState[s] = "OPEN"
                                /\ ~faulty[s]
                             THEN Append(inbox[s], Stringify(last'.msg))
                             ELSE inbox[s]
      ]_vars

C12_Witness ==
    /\ broadcasts > 0
    /\ \E f, c, s \in Range(clients) :
           /\ f \in last.failed
           /\ readyState[c] = "CLOSING"
           /\ IndexOf(clients, f) < IndexOf(clients, c)
           /\ IndexOf(clients, c) < IndexOf(clients, s)
           /\ inbox[s] = <<Stringify(ConnectedStatus), Stringify(last.msg)>>
           /\ Len(inbox[f]) = 1
           /\ Len(inbox[c]) = 1

(***************************************************************************)
(* C13: after a broadcast call returns, every sink whose delivery failed   *)
(* during the call or whose connection was already closed is no longer in  *)
(* the set of registered sinks.                                            *)
(***************************************************************************)
C13_BroadcastRemovesDeadSinks ==
    [][broadcasts' # broadcasts =>
          \A s \in Range(clients') :
              readyState'[s] = "OPEN" /\ s \notin last'.failed
      ]_vars

(***************************************************************************)
(* PriceCacheService                                                       *)
(***************************************************************************)
\* Mutant of GetCachedPrice: the age of the entry is not looked at.
GetCachedPriceAnyAge(cache, t, a) ==
    IF cache[a] # NoEntry THEN cache[a].price ELSE 0

\* getCachedPrice(a) called at time t
GetCachedPrice(cache, t, a) ==
    IF cache[a] # NoEntry
    THEN LET ageMs == t - cache[a].timestamp
         IN  IF ageMs < REFRESH_INTERVAL_MS THEN cache[a].price ELSE 0
    ELSE 0

\* Cycle c (a call of fetchAndCacheAllPrices) is awaiting a fetch.
Fetching(c) == c <= cycleCount /\ position[c] < Len(Assets)

\* The asset cycle c is fetching.
Current(c) == Assets[position[c] + 1]

\* Mutant of Initialize: the first refresh is not awaited.
InitializeWithoutAwait ==
    /\ initState = "new"
    /\ initState' = "returned"
    /\ cycleCount' = 1
    /\ stopped' = FALSE
    /\ refreshInterval' = "armed"
    /\ nextTick' = now + REFRESH_INTERVAL_MS
    /\ UNCHANGED <<payVars, hubVars, now, cachedPrices, position, fetched, lastOk,
                   reads, read>>

\* initialize(): fetchAndCacheAllPrices is called and suspends at the first
\* fetch.
Initialize ==
    /\ initState = "new"
    /\ initState' = "awaiting"
    /\ cycleCount' = 1
    /\ stopped' = FALSE
    /\ UNCHANGED <<payVars, hubVars, now, cachedPrices, refreshInterval, position,
                   fetched, lastOk, nextTick, reads, read>>

\* What follows the last fetch of cycle c: the cycle of initialize() resolves
\* the await, and initialize calls startPeriodicRefresh and returns.
AfterFetch(c) ==
    IF c = 1 /\ position'[c] = Len(Assets) /\ initState = "awaiting"
    THEN /\ initState' = "returned"
         /\ refreshInterval' = "armed"
         /\ nextTick' = now + REFRESH_INTERVAL_MS
    ELSE UNCHANGED <<initState, refreshInterval, nextTick>>

\* The fetch of cycle c answers the price p: the entry is cached.
FetchOk(c, p) ==
    /\ Fetching(c)
    /\ cachedPrices' = [cachedPrices EXCEPT ![Current(c)] = [price |-> p, timestamp |-> now]]
    /\ lastOk' = [lastOk EXCEPT ![Current(c)] = [price |-> p, timestamp |-> now]]
    /\ fetched' = [fetched EXCEPT ![c][Current(c)] = [kind |-> "ok", price |-> p]]
    /\ position' = [position EXCEPT ![c] = @ + 1]
    /\ AfterFetch(c)
    /\ UNCHANGED <<payVars, hubVars, now, cycleCount, stopped, reads, read>>

\* The fetch of cycle c answers without a usd price: nothing is cached.
FetchMissing(c) ==
    /\ Fetching(c)
    /\ fetched' = [fetched EXCEPT ![c][Current(c)] = [kind |-> "missing", price |-> 0]]
    /\ position' = [position EXCEPT ![c] = @ + 1]
    /\ AfterFetch(c)
    /\ UNCHANGED <<payVars, hubVars, now, cachedPrices, lastOk, cycleCount, stopped,
                   reads, read>>

\* Mutant of FetchThrows: no inner try/catch, the throw ends the cycle.
FetchThrowsEndsCycle(c) ==
    /\ Fetching(c)
    /\ fetched' = [fetched EXCEPT ![c][Current(c)] = [kind |-> "throw", price |-> 0]]
    /\ position' = [position EXCEPT ![c] = Len(Assets)]
    /\ AfterFetch(c)
    /\ UNCHANGED <<payVars, hubVars, now, cachedPrices, lastOk, cycleCount, stopped,
                   reads, read>>

\* The fetch of cycle c (or response.json()) throws: logged, on to the next asset.
FetchThrows(c) ==
    /\ Fetching(c)
    /\ fetched' = [fetched EXCEPT ![c][Current(c)] = [kind |-> "throw", price |-> 0]]
    /\ position' = [position EXCEPT ![c] = @ + 1]
    /\ AfterFetch(c)
    /\ UNCHANGED <<payVars, hubVars, now, cachedPrices, lastOk, cycleCount, stopped,
                   reads, read>>

\* The setInterval callback runs: a new cycle starts.
IntervalFires ==
    /\ refreshInterval = "armed"
    /\ now >= nextTick
    /\ cycleCount < MaxCycles
    /\ cycleCount' = cycleCount + 1
    /\ nextTick' = now + REFRESH_INTERVAL_MS
    /\ UNCHANGED <<payVars, hubVars, now, cachedPrices, refreshInterval, initState,
                   position, fetched, lastOk, stopped, reads, read>>

\* stop()
Stop ==
    /\ IF refreshInterval # "null"
       THEN refreshInterval' = "null" /\ nextTick' = 0
       ELSE UNCHANGED <<refreshInterval, nextTick>>
    /\ stopped' = (initState # "new")
    /\ UNCHANGED <<payVars, hubVars, now, cachedPrices, initState, cycleCount, position,
                   fetched, lastOk, reads, read>>

\* A caller reads the price of asset a.
GetPrice(a) ==
    /\ reads < MaxReads
    /\ reads' = reads + 1
    /\ read' = [asset |-> a, price |-> GetCachedPrice(cachedPrices, now, a), at |-> now]
    /\ UNCHANGED <<payVars, hubVars, now, cachedPrices, refreshInterval, initState,
                   cycleCount, position, fetched, lastOk, stopped, nextTick>>

\* Time passes.
Advance(d) ==
    /\ now + d <= MaxNow
    /\ now' = now + d
    /\ UNCHANGED <<payVars, hubVars, cachedPrices, refreshInterval, initState, cycleCount,
                   position, fetched, lastOk, stopped, nextTick, reads, read>>

PriceNext ==
    \/ Initialize
    \/ \E c \in Cycles, p \in Prices : FetchOk(c, p)
    \/ \E c \in Cycles : FetchMissing(c)
    \/ \E c \in Cycles : FetchThrows(c)
    \/ IntervalFires
    \/ Stop
    \/ \E a \in AssetSet : GetPrice(a)
    \/ \E d \in TimeSteps : Advance(d)

PriceSpec == Init /\ [][PriceNext]_vars

\* The fetch of asset a in cycle c completes in this step with the given outcome.
Completes(c, a, kind) == fetched[c][a].kind = "none" /\ fetched'[c][a].kind = kind

(***************************************************************************)
(* C14: getPrice(asset) returns the price of the last successful fetch     *)
(* only while now - fetchedAt < TTL, and the zero sentinel otherwise       *)
(* (never fetched, or no successful fetch within the last TTL: never the   *)
(* stale price); a successful refresh resets the age of the entry to zero. *)
(***************************************************************************)
C14_ReadWithinTtlOnly ==
    [][/\ reads' # reads =>
              LET a == read'.asset
              IN  read'.price =
                      IF lastOk[a] # NoEntry /\ now - lastOk[a].timestamp < REFRESH_INTERVAL_MS
                      THEN lastOk[a].price
                      ELSE 0
       /\ \A c \in Cycles, a \in AssetSet :
              Completes(c, a, "ok") =>
                  /\ now' - cachedPrices'[a].timestamp = 0
                  /\ GetCachedPrice(cachedPrices', now', a) = fetched'[c][a].price
      ]_vars

C14_Witness ==
    /\ reads = 1
    /\ read.price = 0
    /\ lastOk[read.asset] # NoEntry
    /\ lastOk[read.asset].price # 0
    /\ read.at - lastOk[read.asset].timestamp = REFRESH_INTERVAL_MS
    /\ \E c \in Cycles : fetched[c][read.asset].kind = "throw"

(***************************************************************************)
(* C15: stop() cancels the periodic schedule and is idempotent: after      *)
(* stop() has returned no further refresh cycle starts, whether stop() was *)
(* called once, several times, or while initialize() was still awaiting    *)
(* its first refresh.                                                      *)
(***************************************************************************)
C15_NoCycleAfterStop ==
    [][stopped => cycleCount' = cycleCount]_vars

(***************************************************************************)
(* C16 as stated: when initialize() returns, one refresh over all assets   *)
(* has completed, the schedule was not started before, and getPrice        *)
(* returns the fetched price for every asset whose fetch succeeded.        *)
(***************************************************************************)
C16_FetchedPricesReadableOnReturn ==
    [][(initState # "returned" /\ initState' = "returned") =>
          /\ refreshInterval = "null"
          /\ \A a \in AssetSet :
                 /\ fetched'[1][a].kind # "none"
                 /\ fetched'[1][a].kind = "ok" =>
                        GetCachedPrice(cachedPrices', now', a) = fetched'[1][a].price
      ]_vars

(***************************************************************************)
(* C16 amended: initialize() returns, and the schedule is started, only    *)
(* after one refresh over all assets has completed; when it returns the    *)
(* cache holds the fetched price of every asset whose fetch succeeded, and *)
(* getPrice returns it if less than the TTL has passed since that fetch.   *)
(***************************************************************************)
C16_FullRefreshBeforeReturn ==
    [][/\ (refreshInterval' = "armed" \/ initState' = "returned") =>
              /\ position'[1] = Len(Assets)
              /\ \A a \in AssetSet : fetched'[1][a].kind # "none"
       /\ (initState # "returned" /\ initState' = "returned") =>
              /\ refreshInterval = "null"
              /\ \A a \in AssetSet :
                     fetched'[1][a].kind = "ok" =>
                         /\ cachedPrices'[a].price = fetched'[1][a].price
                         /\ now' - cachedPrices'[a].timestamp < REFRESH_INTERVAL_MS =>
                                GetCachedPrice(cachedPrices', now', a) = fetched'[1][a].price
      ]_vars

C16_Witness ==
    /\ initState = "returned"
    /\ refreshInterval = "armed"
    /\ cycleCount = 1
    /\ fetched[1][Assets[1]].kind = "ok"
    /\ fetched[1][Assets[2]].kind = "ok"
    /\ now - cachedPrices[Assets[1]].timestamp >= REFRESH_INTERVAL_MS
    /\ GetCachedPrice(cachedPrices, now, Assets[1]) = 0
    /\ GetCachedPrice(cachedPrices, now, Assets[2]) = fetched[1][Assets[2]].price
    /\ nextTick = now + REFRESH_INTERVAL_MS

(***************************************************************************)
(* C17: within one refresh cycle each asset is fetched independently: a    *)
(* fetch failure leaves the asset's cache entry unchanged and moves on to  *)
(* the next asset, a cycle that has ended has fetched every asset and      *)
(* cached every price it got, and the next cycle starts over with every    *)
(* asset, the failed one included.                                         *)
(***************************************************************************)
C17_AssetsFetchedIndependently ==
    [][\A c \in Cycles :
           /\ \A a \in AssetSet :
                  /\ Completes(c, a, "throw") =>
                         /\ cachedPrices'[a] = cachedPrices[a]
                         /\ position'[c] = position[c] + 1
                  /\ Completes(c, a, "ok") =>
                         cachedPrices'[a].price = fetched'[c][a].price
           /\ (c <= cycleCount' /\ position'[c] = Len(Assets)) =>
                  \A a \in AssetSet : fetched'[c][a].kind # "none"
           /\ (cycleCount' # cycleCount /\ c = cycleCount') =>
                  /\ position'[c] = 0
                  /\ \A a \in AssetSet : fetched'[c][a].kind = "none"
      ]_vars

C17_Witness ==
    /\ cycleCount = 2
    /\ position[2] = Len(Assets)
    /\ fetched[1][Assets[1]].kind = "throw"
    /\ fetched[1][Assets[2]].kind = "ok"
    /\ fetched[2][Assets[1]].kind = "ok"
    /\ cachedPrices[Assets[1]].price = fetched[2][Assets[1]].price

====
